---- MODULE Spec2Model ----
(***************************************************************************)
(* A model of the Open Service Broker client's RotateBinding operation     *)
(* (src/rotate_binding.go) and of the shared request/response helpers it   *)
(* uses (src/client.go, src/version.go).                                   *)
(*                                                                         *)
(* Go pointers are modelled as sequences of length at most one: Nil is a   *)
(* nil pointer, Ptr(x) a pointer to x.  Go strings that are only compared  *)
(* are TLA+ strings; the originating identity's Value, which is parsed and *)
(* encoded, is a sequence of bytes.                                        *)
(***************************************************************************)
EXTENDS Integers, Sequences, FiniteSets, TLC

VARIABLES client, call, versionOp, ctor, fnApp

vars == <<client, call, versionOp, ctor, fnApp>>

Nil == <<>>
Ptr(x) == <<x>>
Deref(p) == p[1]

(***************************************************************************)
(* src/version.go                                                          *)
(***************************************************************************)
Version2_11 == [label |-> "2.11", order |-> 0]
Version2_12 == [label |-> "2.12", order |-> 1]
Version2_13 == [label |-> "2.13", order |-> 2]
Version2_14 == [label |-> "2.14", order |-> 3]
Version2_15 == [label |-> "2.15", order |-> 4]
Version2_16 == [label |-> "2.16", order |-> 5]
Version2_17 == [label |-> "2.17", order |-> 6]

(* LatestAPIVersion naming the release before the latest.                  *)
LatestAPIVersion_stale == Version2_16

LatestAPIVersion == Version2_17

(* The map APIVersions() returns, from its keys to its versions.           *)
APIVersions ==
    [k \in {"2.11", "2.12", "2.13", "2.14", "2.15", "2.16", "2.17"} |->
        CASE k = "2.11" -> Version2_11
          [] k = "2.12" -> Version2_12
          [] k = "2.13" -> Version2_13
          [] k = "2.14" -> Version2_14
          [] k = "2.15" -> Version2_15
          [] k = "2.16" -> Version2_16
          [] k = "2.17" -> Version2_17]

(* The versions a client can be configured with.                           *)
SupportedVersions == {APIVersions[k] : k \in DOMAIN APIVersions}

(* AtLeast comparing strictly.                                             *)
AtLeast_strict(v, test) == v.order > test.order

AtLeast(v, test) == v.order >= test.order

HeaderValue(v) == v.label

String(v) == v.label

IsLessThan(v, other) == ~AtLeast(v, other)

(***************************************************************************)
(* Constants of src/client.go and of net/http as the source uses them.     *)
(***************************************************************************)
APIVersionHeader == "X-Broker-API-Version"
OriginatingIdentityHeader == "X-Broker-API-Originating-Identity"
RequestIdentityheader == "X-Broker-API-Request-Identity"
contentType == "Content-Type"
jsonType == "application/json"
AcceptsIncomplete == "accepts_incomplete"
MethodPut == "PUT"

StatusOK == 200
StatusCreated == 201
StatusAccepted == 202
StatusInternalServerError == 500

(***************************************************************************)
(* Errors.  Every error value is a record with a "type" field; the other   *)
(* fields are those of the Go type.                                        *)
(***************************************************************************)
errorsNew(msg) == [type |-> "errorString", msg |-> msg]

required(name) == [type |-> "required", name |-> name]

OperationNotAllowedError(required_, current) ==
    [type |-> "OperationNotAllowedError", required |-> required_, current |-> current]

(* validateClientVersionIsAtLeast with the comparison turned round.        *)
validateClientVersionIsAtLeast_inverted(c, version) ==
    IF ~AtLeast(version, c.APIVersion)
    THEN Ptr(OperationNotAllowedError(String(version), c.APIVersion.label))
    ELSE Nil

validateClientVersionIsAtLeast(c, version) ==
    IF ~AtLeast(c.APIVersion, version)
    THEN Ptr(OperationNotAllowedError(String(version), c.APIVersion.label))
    ELSE Nil

(***************************************************************************)
(* Originating identity (src/client.go:269-290).  Value is a byte string.  *)
(* isValidJSON is json.Unmarshal into a RawMessage, i.e. a syntax check;   *)
(* the recogniser below accepts the JSON texts built from the bytes        *)
(* '{' '}' '[' ']' and the digits '1'..'9': an empty object, an array of   *)
(* at most one value, an integer.                                          *)
(***************************************************************************)
LBrace == <<123>>
EmptyObject == <<123, 125>>
ArrayOfOne == <<91, 49, 93>>

IsDigits(s) == Len(s) > 0 /\ \A i \in 1..Len(s) : s[i] \in 49..57

(* isValidJSON with the syntax check dropped.                              *)
isValidJSON_unchecked(s) == Nil

RECURSIVE IsJSONText(_)
IsJSONText(s) ==
    \/ s = EmptyObject
    \/ IsDigits(s)
    \/ /\ Len(s) >= 2
       /\ s[1] = 91
       /\ s[Len(s)] = 93
       /\ (Len(s) = 2 \/ IsJSONText(SubSeq(s, 2, Len(s) - 1)))

isValidJSON(s) ==
    IF IsJSONText(s) THEN Nil
    ELSE Ptr([type |-> "SyntaxError", msg |-> "unexpected end of JSON input"])

(* EncodeToString leaving out the padding, as base64.RawStdEncoding does.   *)
RECURSIVE EncodeToString_unpadded(_)
EncodeToString_unpadded(src) ==
    IF Len(src) = 0 THEN <<>>
    ELSE IF Len(src) >= 3 THEN
        LET val == src[1] * 65536 + src[2] * 256 + src[3]
        IN  <<val \div 262144, (val \div 4096) % 64, (val \div 64) % 64, val % 64>>
                \o EncodeToString_unpadded(SubSeq(src, 4, Len(src)))
    ELSE IF Len(src) = 2 THEN
        LET val == src[1] * 65536 + src[2] * 256
        IN  <<val \div 262144, (val \div 4096) % 64, (val \div 64) % 64>>
    ELSE
        LET val == src[1] * 65536
        IN  <<val \div 262144, (val \div 4096) % 64>>

(* base64.StdEncoding.EncodeToString: each output element is an index into *)
(* the standard alphabet, 64 standing for the padding character '='.       *)
RECURSIVE EncodeToString(_)
EncodeToString(src) ==
    IF Len(src) = 0 THEN <<>>
    ELSE IF Len(src) >= 3 THEN
        LET val == src[1] * 65536 + src[2] * 256 + src[3]
        IN  <<val \div 262144, (val \div 4096) % 64, (val \div 64) % 64, val % 64>>
                \o EncodeToString(SubSeq(src, 4, Len(src)))
    ELSE IF Len(src) = 2 THEN
        LET val == src[1] * 65536 + src[2] * 256
        IN  <<val \div 262144, (val \div 4096) % 64, (val \div 64) % 64, 64>>
    ELSE
        LET val == src[1] * 65536
        IN  <<val \div 262144, (val \div 4096) % 64, 64, 64>>

(* fmt.Sprintf("%v %v", platform, encodedValue), kept as its three parts.  *)
buildOriginatingIdentityHeaderValue(i) ==
    IF i = Nil THEN [value |-> <<>>, err |-> Nil]
    ELSE IF Deref(i).Platform = "" THEN
        [value |-> <<>>,
         err |-> Ptr(errorsNew("originating identity platform must not be empty"))]
    ELSE IF Deref(i).Value = <<>> THEN
        [value |-> <<>>,
         err |-> Ptr(errorsNew("originating identity value must not be empty"))]
    ELSE IF isValidJSON(Deref(i).Value) # Nil THEN
        [value |-> <<>>,
         err |-> Ptr([type |-> "wrapError",
                      msg |-> "originating identity value must be valid JSON",
                      cause |-> Deref(isValidJSON(Deref(i).Value))])]
    ELSE
        [value |-> <<Deref(i).Platform, " ", EncodeToString(Deref(i).Value)>>,
         err |-> Nil]

(***************************************************************************)
(* prepareAndDo (src/client.go:161-217) up to the call of doRequestFunc:   *)
(* either an error, or the request that is handed to the transport.        *)
(* json.Marshal of a rotateBindingRequestBody and http.NewRequest with the *)
(* method PUT do not fail on the inputs of this model.                     *)
(***************************************************************************)
HeaderSet(h, k, v) == [x \in (DOMAIN h) \cup {k} |-> IF x = k THEN v ELSE h[x]]

(* The header's condition without the version test.                        *)
sendsOriginatingIdentity_anyVersion(c, originatingIdentity) ==
    originatingIdentity # Nil

NoHeaders == [x \in {} |-> ""]

sendsOriginatingIdentity(c, originatingIdentity) ==
    AtLeast(c.APIVersion, Version2_13) /\ originatingIdentity # Nil

(* prepareAndDo setting the content type on every request.                 *)
prepareAndDo_alwaysContentType(c, method, URL, params, body, originatingIdentity, requestId) ==
    LET h0 == HeaderSet(NoHeaders, APIVersionHeader, HeaderValue(c.APIVersion))
        h1 == HeaderSet(h0, contentType, jsonType)
        h1a == IF c.AuthConfig = Nil THEN h1
               ELSE IF Deref(c.AuthConfig).BasicAuthConfig # Nil
               THEN HeaderSet(h1, "Authorization",
                              <<"Basic",
                                Deref(Deref(c.AuthConfig).BasicAuthConfig).Username,
                                Deref(Deref(c.AuthConfig).BasicAuthConfig).Password>>)
               ELSE IF Deref(c.AuthConfig).BearerConfig # Nil
               THEN HeaderSet(h1, "Authorization",
                              <<"Bearer",
                                Deref(Deref(c.AuthConfig).BearerConfig).Token>>)
               ELSE h1
        h2 == HeaderSet(h1a, RequestIdentityheader, requestId)
        headerValue == buildOriginatingIdentityHeaderValue(originatingIdentity)
    IN  IF sendsOriginatingIdentity(c, originatingIdentity) /\ headerValue.err # Nil
        THEN [request |-> Nil, err |-> headerValue.err]
        ELSE [request |->
                 Ptr([Method |-> method,
                      URL    |-> URL,
                      Query  |-> params,
                      Header |-> IF sendsOriginatingIdentity(c, originatingIdentity)
                                 THEN HeaderSet(h2, OriginatingIdentityHeader,
                                                headerValue.value)
                                 ELSE h2,
                      Body   |-> body]),
              err |-> Nil]

(* prepareAndDo without the bearer branch.                                 *)
prepareAndDo_noBearer(c, method, URL, params, body, originatingIdentity, requestId) ==
    LET h0 == HeaderSet(NoHeaders, APIVersionHeader, HeaderValue(c.APIVersion))
        h1 == IF body # Nil THEN HeaderSet(h0, contentType, jsonType) ELSE h0
        h1a == IF c.AuthConfig = Nil THEN h1
               ELSE IF Deref(c.AuthConfig).BasicAuthConfig # Nil
               THEN HeaderSet(h1, "Authorization",
                              <<"Basic",
                                Deref(Deref(c.AuthConfig).BasicAuthConfig).Username,
                                Deref(Deref(c.AuthConfig).BasicAuthConfig).Password>>)
               ELSE h1
        h2 == HeaderSet(h1a, RequestIdentityheader, requestId)
        headerValue == buildOriginatingIdentityHeaderValue(originatingIdentity)
    IN  IF sendsOriginatingIdentity(c, originatingIdentity) /\ headerValue.err # Nil
        THEN [request |-> Nil, err |-> headerValue.err]
        ELSE [request |->
                 Ptr([Method |-> method,
                      URL    |-> URL,
                      Query  |-> params,
                      Header |-> IF sendsOriginatingIdentity(c, originatingIdentity)
                                 THEN HeaderSet(h2, OriginatingIdentityHeader,
                                                headerValue.value)
                                 ELSE h2,
                      Body   |-> body]),
              err |-> Nil]

prepareAndDo(c, method, URL, params, body, originatingIdentity, requestId) ==
    LET h0 == HeaderSet(NoHeaders, APIVersionHeader, HeaderValue(c.APIVersion))
        h1 == IF body # Nil THEN HeaderSet(h0, contentType, jsonType) ELSE h0
        h1a == IF c.AuthConfig = Nil THEN h1
               ELSE IF Deref(c.AuthConfig).BasicAuthConfig # Nil
               THEN HeaderSet(h1, "Authorization",
                              <<"Basic",
                                Deref(Deref(c.AuthConfig).BasicAuthConfig).Username,
                                Deref(Deref(c.AuthConfig).BasicAuthConfig).Password>>)
               ELSE IF Deref(c.AuthConfig).BearerConfig # Nil
               THEN HeaderSet(h1, "Authorization",
                              <<"Bearer",
                                Deref(Deref(c.AuthConfig).BearerConfig).Token>>)
               ELSE h1
        h2 == HeaderSet(h1a, RequestIdentityheader, requestId)
        headerValue == buildOriginatingIdentityHeaderValue(originatingIdentity)
    IN  IF sendsOriginatingIdentity(c, originatingIdentity) /\ headerValue.err # Nil
        THEN [request |-> Nil, err |-> headerValue.err]
        ELSE [request |->
                 Ptr([Method |-> method,
                      URL    |-> URL,
                      Query  |-> params,
                      Header |-> IF sendsOriginatingIdentity(c, originatingIdentity)
                                 THEN HeaderSet(h2, OriginatingIdentityHeader,
                                                headerValue.value)
                                 ELSE h2,
                      Body   |-> body]),
              err |-> Nil]

(***************************************************************************)
(* Response bodies and their decoding (src/client.go:223-241).  A body is  *)
(* malformed JSON, a JSON array, or a JSON object given by its fields; a   *)
(* JSON value is a tuple whose first element is its JSON type.             *)
(***************************************************************************)
jsonSyntaxError == [type |-> "SyntaxError", msg |-> "unexpected end of JSON input"]

jsonTypeError(field) == [type |-> "UnmarshalTypeError", field |-> field]

(* The value of a key as a Go pointer field sees it: nil when the key is   *)
(* absent or null.                                                         *)
Field(body, k) ==
    IF k \in DOMAIN body.fields /\ body.fields[k][1] # "null"
    THEN Ptr(body.fields[k])
    ELSE Nil

HasType(p, t) == p = Nil \/ Deref(p)[1] = t

(* json.Unmarshal into a struct: a syntax error, a type error when the     *)
(* body is not an object or a known key holds a value of another type,     *)
(* else the struct; unknown keys are ignored.                              *)
StructError(body, types) ==
    IF body.syntax = "malformed" THEN Ptr(jsonSyntaxError)
    ELSE IF body.syntax # "object" THEN Ptr(jsonTypeError(""))
    ELSE IF \E k \in DOMAIN types : ~HasType(Field(body, k), types[k])
    THEN Ptr(jsonTypeError(CHOOSE k \in DOMAIN types :
                               ~HasType(Field(body, k), types[k])))
    ELSE Nil

BindResponseTypes ==
    [k \in {"async", "credentials", "endpoints", "operation"} |->
        CASE k = "async" -> "bool"
          [] k = "credentials" -> "object"
          [] k = "endpoints" -> "array"
          [] k = "operation" -> "string"]

EmptyBindResponse ==
    [Async |-> FALSE, Credentials |-> Nil, Endpoints |-> Nil, OperationKey |-> Nil]

unmarshalBindResponse(body) ==
    IF StructError(body, BindResponseTypes) # Nil
    THEN [obj |-> EmptyBindResponse, err |-> StructError(body, BindResponseTypes)]
    ELSE [obj |-> [Async        |-> Field(body, "async") # Nil
                                    /\ Deref(Field(body, "async"))[2],
                   Credentials  |-> Field(body, "credentials"),
                   Endpoints    |-> Field(body, "endpoints"),
                   OperationKey |-> IF Field(body, "operation") = Nil THEN Nil
                                    ELSE Ptr(Deref(Field(body, "operation"))[2])],
          err |-> Nil]

bindSuccessResponseBodyTypes ==
    [k \in {"credentials", "endpoints", "operation"} |->
        CASE k = "credentials" -> "object"
          [] k = "endpoints" -> "array"
          [] k = "operation" -> "string"]

unmarshalBindSuccessResponseBody(body) ==
    IF StructError(body, bindSuccessResponseBodyTypes) # Nil
    THEN [obj |-> [Credentials |-> Nil, Endpoints |-> Nil, Operation |-> Nil],
          err |-> StructError(body, bindSuccessResponseBodyTypes)]
    ELSE [obj |-> [Credentials |-> Field(body, "credentials"),
                   Endpoints   |-> Field(body, "endpoints"),
                   Operation   |-> IF Field(body, "operation") = Nil THEN Nil
                                   ELSE Ptr(Deref(Field(body, "operation"))[2])],
          err |-> Nil]

(* json.Unmarshal into a map[string]interface{}: every object decodes.     *)
unmarshalMap(body) ==
    IF body.syntax = "malformed" THEN [obj |-> <<>>, err |-> Ptr(jsonSyntaxError)]
    ELSE IF body.syntax # "object" THEN [obj |-> <<>>, err |-> Ptr(jsonTypeError(""))]
    ELSE [obj |-> body.fields, err |-> Nil]

unmarshalResponse(response, obj) ==
    CASE obj = "BindResponse" -> unmarshalBindResponse(response.Body)
      [] obj = "bindSuccessResponseBody" -> unmarshalBindSuccessResponseBody(response.Body)
      [] obj = "map" -> unmarshalMap(response.Body)

(* brokerResponse[key].(string) *)
StringAt(m, key) ==
    IF key \in DOMAIN m /\ m[key][1] = "string" THEN Ptr(m[key][2]) ELSE Nil

HTTPStatusCodeError(status, errorMessage, description, responseError) ==
    [type          |-> "HTTPStatusCodeError",
     StatusCode    |-> status,
     ErrorMessage  |-> errorMessage,
     Description   |-> description,
     ResponseError |-> responseError]

(* handleFailureResponse reading the description only when the body has an *)
(* error string.                                                           *)
handleFailureResponse_nested(response) ==
    LET u == unmarshalResponse(response, "map")
    IN  IF u.err # Nil
        THEN HTTPStatusCodeError(response.StatusCode, Nil, Nil, u.err)
        ELSE HTTPStatusCodeError(response.StatusCode,
                                 StringAt(u.obj, "error"),
                                 IF StringAt(u.obj, "error") # Nil
                                 THEN StringAt(u.obj, "description")
                                 ELSE Nil,
                                 Nil)

handleFailureResponse(response) ==
    LET u == unmarshalResponse(response, "map")
    IN  IF u.err # Nil
        THEN HTTPStatusCodeError(response.StatusCode, Nil, Nil, u.err)
        ELSE HTTPStatusCodeError(response.StatusCode,
                                 StringAt(u.obj, "error"),
                                 StringAt(u.obj, "description"),
                                 Nil)

(***************************************************************************)
(* RotateBinding (src/rotate_binding.go:32-121).                           *)
(***************************************************************************)
(* validateRotateBindingRequest without the check of the predecessor.      *)
validateRotateBindingRequest_noPredecessor(request) ==
    IF request.InstanceID = "" THEN Ptr(required("instanceID"))
    ELSE IF request.BindingID = "" THEN Ptr(required("serviceID"))
    ELSE Nil

validateRotateBindingRequest(request) ==
    IF request.InstanceID = "" THEN Ptr(required("instanceID"))
    ELSE IF request.BindingID = "" THEN Ptr(required("serviceID"))
    ELSE IF request.PredecessorBindingID = "" THEN Ptr(required("predecessorBindingID"))
    ELSE Nil

(* fmt.Sprintf(bindingURLFmt, c.URL, r.InstanceID, r.BindingID), kept as   *)
(* its parts.                                                              *)
bindingURL(URL, InstanceID, BindingID) ==
    <<URL, "/v2/service_instances/", InstanceID, "/service_bindings/", BindingID>>

(* The query parameters with accepts_incomplete always attached.           *)
rotateBindingParams_always(r) ==
    [k \in {AcceptsIncomplete} |-> IF r.AcceptsIncomplete THEN "true" ELSE "false"]

rotateBindingParams(r) ==
    IF r.AcceptsIncomplete
    THEN [k \in {AcceptsIncomplete} |-> "true"]
    ELSE [k \in {} |-> "true"]

(* Lines 33-47: validation, then prepareAndDo up to the transport.         *)
RotateBindingPrepare(c, r, requestId) ==
    IF validateRotateBindingRequest(r) # Nil
    THEN [request |-> Nil, err |-> validateRotateBindingRequest(r)]
    ELSE prepareAndDo(c, MethodPut,
                      bindingURL(c.URL, r.InstanceID, r.BindingID),
                      rotateBindingParams(r),
                      Ptr([predecessor_binding_id |-> r.PredecessorBindingID]),
                      r.OriginatingIdentity,
                      requestId)

(* The 200/201 branch returning the decoder's error as it is.              *)
RotateBindingSync_rawError(c, response) ==
    LET u == unmarshalResponse(response, "BindResponse")
    IN  IF u.err # Nil
        THEN [response |-> Nil, err |-> u.err]
        ELSE [response |-> Ptr(IF ~c.EnableAlphaFeatures
                               THEN [u.obj EXCEPT !.Endpoints = Nil]
                               ELSE u.obj),
              err |-> Nil]

(* The 200/201 branch returning the response it decoded into together     *)
(* with the error of the decoding.                                         *)
RotateBindingSync_partial(c, response) ==
    LET u == unmarshalResponse(response, "BindResponse")
    IN  IF u.err # Nil
        THEN [response |-> Ptr(EmptyBindResponse),
              err |-> Ptr(HTTPStatusCodeError(response.StatusCode, Nil, Nil, u.err))]
        ELSE [response |-> Ptr(IF ~c.EnableAlphaFeatures
                               THEN [u.obj EXCEPT !.Endpoints = Nil]
                               ELSE u.obj),
              err |-> Nil]

(* Lines 58-68: 200 and 201.                                               *)
RotateBindingSync(c, response) ==
    LET u == unmarshalResponse(response, "BindResponse")
    IN  IF u.err # Nil
        THEN [response |-> Nil,
              err |-> Ptr(HTTPStatusCodeError(response.StatusCode, Nil, Nil, u.err))]
        ELSE [response |-> Ptr(IF ~c.EnableAlphaFeatures
                               THEN [u.obj EXCEPT !.Endpoints = Nil]
                               ELSE u.obj),
              err |-> Nil]

(* The 202 branch without the copy of the operation key.                   *)
RotateBindingAsync_noOperation(c, response) ==
    LET u == unmarshalResponse(response, "bindSuccessResponseBody")
    IN  IF u.err # Nil
        THEN [response |-> Nil,
              err |-> Ptr(HTTPStatusCodeError(response.StatusCode, Nil, Nil, u.err))]
        ELSE [response |-> Ptr([Async        |-> response.StatusCode = StatusAccepted,
                                Credentials  |-> u.obj.Credentials,
                                Endpoints    |-> u.obj.Endpoints,
                                OperationKey |-> Nil]),
              err |-> Nil]

(* Lines 74-101: 202 to a request that accepts incomplete.                 *)
RotateBindingAsync(c, response) ==
    LET u == unmarshalResponse(response, "bindSuccessResponseBody")
    IN  IF u.err # Nil
        THEN [response |-> Nil,
              err |-> Ptr(HTTPStatusCodeError(response.StatusCode, Nil, Nil, u.err))]
        ELSE [response |-> Ptr([Async        |-> response.StatusCode = StatusAccepted,
                                Credentials  |-> u.obj.Credentials,
                                Endpoints    |-> u.obj.Endpoints,
                                OperationKey |-> u.obj.Operation]),
              err |-> Nil]

(* The 202 branch without the test of AcceptsIncomplete.                   *)
RotateBindingAccepted_unconditional(c, r, response) ==
    RotateBindingAsync(c, response)

(* Lines 69-101: 202.                                                      *)
RotateBindingAccepted(c, r, response) ==
    IF ~r.AcceptsIncomplete
    THEN [response |-> Nil, err |-> Ptr(handleFailureResponse(response))]
    ELSE RotateBindingAsync(c, response)

(* The switch taking 410 Gone for a success, as deprovision and unbind do. *)
RotateBindingDispatch_goneIsSuccess(c, r, response) ==
    IF response.StatusCode \in {StatusOK, StatusCreated}
    THEN RotateBindingSync(c, response)
    ELSE IF response.StatusCode = StatusAccepted
    THEN RotateBindingAccepted(c, r, response)
    ELSE IF response.StatusCode = 410
    THEN [response |-> Ptr(EmptyBindResponse), err |-> Nil]
    ELSE [response |-> Nil, err |-> Ptr(handleFailureResponse(response))]

(* Lines 57-104: the switch on the status code.                            *)
RotateBindingDispatch(c, r, response) ==
    IF response.StatusCode \in {StatusOK, StatusCreated}
    THEN RotateBindingSync(c, response)
    ELSE IF response.StatusCode = StatusAccepted
    THEN RotateBindingAccepted(c, r, response)
    ELSE [response |-> Nil, err |-> Ptr(handleFailureResponse(response))]

(* RotateBinding wrapping the transport's error.                           *)
RotateBindingResult_wrapped(c, r, reaction) ==
    IF reaction.err # Nil
    THEN [response |-> Nil,
          err |-> Ptr([type |-> "wrapError", msg |-> "rotate binding failed",
                       cause |-> Deref(reaction.err)])]
    ELSE RotateBindingDispatch(c, r, Deref(reaction.response))

(* Lines 47-105: what RotateBinding returns once doRequestFunc, whose      *)
(* result prepareAndDo returns as it is (src/client.go:216), has returned. *)
RotateBindingResult(c, r, reaction) ==
    IF reaction.err # Nil
    THEN [response |-> Nil, err |-> reaction.err]
    ELSE RotateBindingDispatch(c, r, Deref(reaction.response))

(***************************************************************************)
(* Inputs.                                                                 *)
(***************************************************************************)
Calls == {1}

BasicAuth ==
    Ptr([BasicAuthConfig |-> Ptr([Username |-> "user", Password |-> "pass"]),
         BearerConfig    |-> Nil])

BearerAuth ==
    Ptr([BasicAuthConfig |-> Nil,
         BearerConfig    |-> Ptr([Token |-> "token"])])

(* The clients NewClient returns (src/client.go:97-118).                   *)
Clients ==
    [URL : {"http://broker"},
     APIVersion : SupportedVersions,
     AuthConfig : {Nil, BasicAuth, BearerAuth},
     EnableAlphaFeatures : BOOLEAN]

OriginatingIdentities ==
    {Nil,
     Ptr([Platform |-> "fakeplatform", Value |-> EmptyObject]),
     Ptr([Platform |-> "fakeplatform", Value |-> ArrayOfOne]),
     Ptr([Platform |-> "", Value |-> EmptyObject]),
     Ptr([Platform |-> "fakeplatform", Value |-> <<>>]),
     Ptr([Platform |-> "fakeplatform", Value |-> LBrace])}

RotateBindingRequests ==
    [InstanceID : {"", "test-instance-id"},
     BindingID : {"", "test-binding-id"},
     AcceptsIncomplete : BOOLEAN,
     PredecessorBindingID : {"", "test-predecessor-binding-id"},
     OriginatingIdentity : OriginatingIdentities]

(* uuid.New().String() *)
UUIDs == {"uuid-a", "uuid-b"}

BodyKeys == {"error", "description", "endpoints", "operation", "async"}

BodyValues(k) ==
    CASE k = "error" -> {<<"string", "BrokerError">>, <<"number", 1>>}
      [] k = "description" -> {<<"string", "broker failed">>, <<"number", 1>>}
      [] k = "endpoints" -> {<<"array", "endpoints">>}
      [] k = "operation" -> {<<"string", "test-operation-key">>}
      [] k = "async" -> {<<"bool", TRUE>>}

ObjectBodies ==
    UNION {{[syntax |-> "object", fields |-> f] :
                f \in {g \in [ks -> UNION {BodyValues(k) : k \in ks}] :
                          \A k \in ks : g[k] \in BodyValues(k)}} :
           ks \in SUBSET BodyKeys}

Bodies ==
    {[syntax |-> "malformed", fields |-> <<>>], [syntax |-> "array", fields |-> <<>>]}
        \cup ObjectBodies

StatusCodes == {StatusOK, StatusCreated, StatusAccepted, 410, StatusInternalServerError}

TransportErrors ==
    {[type |-> "errorString", msg |-> "http error"],
     [type |-> "errorString", msg |-> "connection refused"]}

(* What doRequestFunc can return.                                          *)
Reactions ==
    {[response |-> Nil, err |-> Ptr(e)] : e \in TransportErrors}
        \cup {[response |-> Ptr([StatusCode |-> s, Body |-> b]), err |-> Nil] :
                 s \in StatusCodes, b \in Bodies}

drainLimit == 4096

(* drainReader on a body with unread bytes left: the bytes it discards.    *)
drainReader(unread) == IF unread > drainLimit THEN drainLimit ELSE unread

(* What a call does to the body of a response: unmarshalResponse reads it  *)
(* to its end, and the deferred function drains and then closes it.        *)
readDrainClose == <<"io.ReadAll", "drainReader", "Close">>

(***************************************************************************)
(* State: the client's configuration and, per call of RotateBinding, its   *)
(* position, its request, the request handed to the transport, what the    *)
(* transport returned, what RotateBinding returned, and the response body. *)
(***************************************************************************)
IdleCall ==
    [pc             |-> "idle",
     r              |-> Nil,
     request        |-> Nil,
     transportCalls |-> 0,
     reaction       |-> Nil,
     response       |-> Nil,
     err            |-> Nil,
     bodyDrained    |-> FALSE,
     bodyClosed     |-> 0,
     bodyOps        |-> <<>>,
     bodyDiscarded  |-> 0]

IdleVersionOp == [op |-> "none", args |-> <<>>, result |-> <<>>]

NoConstruction == [pc |-> "none"]

NoApplication == [op |-> "none", args |-> <<>>, result |-> <<>>]

Init ==
    /\ client \in Clients
    /\ call = [k \in Calls |-> IdleCall]
    /\ versionOp = IdleVersionOp
    /\ fnApp = NoApplication
    /\ ctor = NoConstruction

(* RotateBinding from its entry to the call of doRequestFunc, or to its    *)
(* return when validation or the building of the request fails.            *)
RotateBindingCall(k, r, requestId) ==
    /\ call[k].pc = "idle"
    /\ LET p == RotateBindingPrepare(client, r, requestId)
       IN  call' = [call EXCEPT ![k] =
                IF p.err # Nil
                THEN [@ EXCEPT !.pc = "returned", !.r = Ptr(r), !.err = p.err]
                ELSE [@ EXCEPT !.pc = "inTransport", !.r = Ptr(r),
                               !.request = p.request,
                               !.transportCalls = @ + 1]]
    /\ UNCHANGED <<client, versionOp, ctor, fnApp>>

(* RotateBinding closing the body only where it returns a BindResponse.    *)
RotateBindingReturn_leak(k, reaction) ==
    /\ call[k].pc = "inTransport"
    /\ LET out == RotateBindingResult(client, Deref(call[k].r), reaction)
       IN  call' = [call EXCEPT ![k] =
                [@ EXCEPT !.pc = "returned",
                          !.reaction = Ptr(reaction),
                          !.response = out.response,
                          !.err = out.err,
                          !.bodyDrained = out.response # Nil,
                          !.bodyClosed = IF out.response # Nil THEN @ + 1 ELSE @,
                          !.bodyOps = IF reaction.response = Nil THEN @
                                      ELSE IF out.response # Nil THEN readDrainClose
                                      ELSE <<"io.ReadAll">>,
                          !.bodyDiscarded = IF out.response # Nil
                                            THEN drainReader(0) ELSE @]]
    /\ UNCHANGED <<client, versionOp, ctor, fnApp>>

(* RotateBinding sending the request again when the transport fails.       *)
RotateBindingReturn_retry(k, reaction) ==
    /\ call[k].pc = "inTransport"
    /\ LET out == RotateBindingResult(client, Deref(call[k].r), reaction)
       IN  call' = [call EXCEPT ![k] =
                IF reaction.err # Nil
                THEN [@ EXCEPT !.reaction = Ptr(reaction),
                               !.transportCalls = @ + 1]
                ELSE [@ EXCEPT !.pc = "returned",
                               !.reaction = Ptr(reaction),
                               !.response = out.response,
                               !.err = out.err,
                               !.bodyDrained = TRUE,
                               !.bodyClosed = @ + 1,
                               !.bodyOps = readDrainClose,
                               !.bodyDiscarded = drainReader(0)]]
    /\ UNCHANGED <<client, versionOp, ctor, fnApp>>

(* RotateBinding working on the request of the call that started first.    *)
RotateBindingReturn_crossed(k, reaction) ==
    /\ call[k].pc = "inTransport"
    /\ LET first == CHOOSE j \in DOMAIN call :
                        /\ call[j].r # Nil
                        /\ \A i \in DOMAIN call : call[i].r # Nil => j <= i
           out == RotateBindingResult(client, Deref(call[first].r), reaction)
       IN  call' = [call EXCEPT ![k] =
                [@ EXCEPT !.pc = "returned",
                          !.reaction = Ptr(reaction),
                          !.response = out.response,
                          !.err = out.err,
                          !.bodyDrained = reaction.response # Nil,
                          !.bodyClosed = IF reaction.response # Nil THEN @ + 1 ELSE @,
                          !.bodyOps = IF reaction.response # Nil THEN readDrainClose ELSE @,
                          !.bodyDiscarded = IF reaction.response # Nil
                                            THEN drainReader(0) ELSE @]]
    /\ UNCHANGED <<client, versionOp, ctor, fnApp>>

(* doRequestFunc returns and RotateBinding runs to its return; the         *)
(* deferred function drains and closes the body of a response.             *)
RotateBindingReturn(k, reaction) ==
    /\ call[k].pc = "inTransport"
    /\ LET out == RotateBindingResult(client, Deref(call[k].r), reaction)
       IN  call' = [call EXCEPT ![k] =
                [@ EXCEPT !.pc = "returned",
                          !.reaction = Ptr(reaction),
                          !.response = out.response,
                          !.err = out.err,
                          !.bodyDrained = reaction.response # Nil,
                          !.bodyClosed = IF reaction.response # Nil THEN @ + 1 ELSE @,
                          !.bodyOps = IF reaction.response # Nil THEN readDrainClose ELSE @,
                          !.bodyDiscarded = IF reaction.response # Nil
                                            THEN drainReader(0) ELSE @]]
    /\ UNCHANGED <<client, versionOp, ctor, fnApp>>

Next ==
    \/ \E k \in Calls, r \in RotateBindingRequests, requestId \in UUIDs :
           RotateBindingCall(k, r, requestId)
    \/ \E k \in Calls, reaction \in Reactions :
           RotateBindingReturn(k, reaction)

Spec == Init /\ [][Next]_vars

(***************************************************************************)
(* Several calls of RotateBinding running at once on one client: each call *)
(* is its own goroutine with its own request, and their steps interleave.  *)
(***************************************************************************)
NumCalls == 2

ConcurrentCalls == 1..NumCalls

ConcurrentClients ==
    {c \in Clients : c.APIVersion = Version2_17
                     /\ c.AuthConfig = BasicAuth}

ConcurrentRequests ==
    {[InstanceID           |-> "test-instance-id",
      BindingID            |-> "test-binding-id",
      AcceptsIncomplete    |-> TRUE,
      PredecessorBindingID |-> "test-predecessor-binding-id",
      OriginatingIdentity  |-> Ptr([Platform |-> "fakeplatform", Value |-> EmptyObject])],
     [InstanceID           |-> "test-instance-id",
      BindingID            |-> "test-binding-id",
      AcceptsIncomplete    |-> FALSE,
      PredecessorBindingID |-> "test-predecessor-binding-id",
      OriginatingIdentity  |-> Ptr([Platform |-> "fakeplatform", Value |-> ArrayOfOne])],
     [InstanceID           |-> "test-instance-id",
      BindingID            |-> "",
      AcceptsIncomplete    |-> FALSE,
      PredecessorBindingID |-> "test-predecessor-binding-id",
      OriginatingIdentity  |-> Nil]}

ConcurrentReactions ==
    {rc \in Reactions :
        \/ rc.response = Nil /\ rc.err = Ptr([type |-> "errorString", msg |-> "http error"])
        \/ /\ rc.response # Nil
           /\ Deref(rc.response).StatusCode \in {StatusOK, StatusAccepted}
           /\ Deref(rc.response).Body.syntax = "object"
           /\ DOMAIN Deref(rc.response).Body.fields = {"endpoints", "operation"}
        \/ /\ rc.response # Nil
           /\ Deref(rc.response).StatusCode = StatusInternalServerError
           /\ Deref(rc.response).Body.syntax = "object"
           /\ DOMAIN Deref(rc.response).Body.fields = {"description"}
           /\ Deref(rc.response).Body.fields["description"][1] = "string"}

InitConcurrent ==
    /\ client \in ConcurrentClients
    /\ call = [k \in ConcurrentCalls |-> IdleCall]
    /\ versionOp = IdleVersionOp
    /\ fnApp = NoApplication
    /\ ctor = NoConstruction

NextConcurrent ==
    \/ \E k \in ConcurrentCalls, r \in ConcurrentRequests, requestId \in UUIDs :
           RotateBindingCall(k, r, requestId)
    \/ \E k \in ConcurrentCalls, reaction \in ConcurrentReactions :
           RotateBindingReturn(k, reaction)

SpecConcurrent == InitConcurrent /\ [][NextConcurrent]_vars

(***************************************************************************)
(* NewClient (src/client.go:59-119).  The caller's ClientConfiguration     *)
(* points to its tls.Config; heap maps the addresses of tls.Config objects *)
(* to their contents, so that a write through a shared pointer is seen by  *)
(* every holder of that pointer.                                           *)
(***************************************************************************)
callerTLS == "config.TLSConfig"

newTLS == "&tls.Config{}"

ZeroTLSConfig == [InsecureSkipVerify |-> FALSE, RootCAs |-> Nil]

NewCertPool == {}

(* x509.CertPool.AppendCertsFromPEM: the certificates among the blocks.    *)
AppendCertsFromPEM(pool, pemCerts) ==
    pool \cup {pemCerts[i].cert : i \in {j \in 1..Len(pemCerts) :
                                            pemCerts[j].Type = "CERTIFICATE"}}

(* strings.TrimRight(URL, "/") on the URLs of ClientConfigurations.        *)
TrimRight(URL) ==
    CASE URL = "http://broker/"  -> "http://broker"
      [] URL = "http://broker//" -> "http://broker"
      [] OTHER -> URL

(* The address transport.TLSClientConfig holds.                            *)
TLSClientConfig(config) ==
    IF config.TLSConfig # Nil THEN Deref(config.TLSConfig) ELSE newTLS

(* The heap after lines 78-90.                                             *)
configureTLS(config, heap) ==
    LET a == TLSClientConfig(config)
        h0 == IF config.TLSConfig # Nil THEN heap ELSE heap @@ (a :> ZeroTLSConfig)
        h1 == IF config.Insecure
              THEN [h0 EXCEPT ![a].InsecureSkipVerify = TRUE]
              ELSE h0
    IN  IF Len(config.CAData) # 0
        THEN [h1 EXCEPT ![a].RootCAs =
                 Ptr(AppendCertsFromPEM(IF @ = Nil THEN NewCertPool ELSE Deref(@),
                                        config.CAData))]
        ELSE h1

(* The AuthConfig checks without the check that only one is set.           *)
authConfigError_onlyEmpty(AuthConfig) ==
    IF AuthConfig # Nil
          /\ Deref(AuthConfig).BasicAuthConfig = Nil
          /\ Deref(AuthConfig).BearerConfig = Nil
    THEN Ptr(errorsNew("Non-nil AuthConfig cannot be empty"))
    ELSE Nil

(* The AuthConfig checks of lines 107-114.                                 *)
authConfigError(AuthConfig) ==
    IF AuthConfig = Nil THEN Nil
    ELSE IF /\ Deref(AuthConfig).BasicAuthConfig = Nil
            /\ Deref(AuthConfig).BearerConfig = Nil
         THEN Ptr(errorsNew("Non-nil AuthConfig cannot be empty"))
    ELSE IF /\ Deref(AuthConfig).BasicAuthConfig # Nil
            /\ Deref(AuthConfig).BearerConfig # Nil
         THEN Ptr(errorsNew("Only one AuthConfig implementation must be set at a time"))
    ELSE Nil

(* NewClient(config): the client, the error and the heap it leaves.        *)
NewClientResult(config, heap) ==
    LET a == TLSClientConfig(config)
        h == configureTLS(config, heap)
    IN  IF h[a].InsecureSkipVerify /\ h[a].RootCAs # Nil
        THEN [c    |-> Nil,
              err  |-> Ptr(errorsNew("Cannot specify root CAs and to skip TLS verification")),
              heap |-> h]
        ELSE IF authConfigError(config.AuthConfig) # Nil
        THEN [c |-> Nil, err |-> authConfigError(config.AuthConfig), heap |-> h]
        ELSE [c    |-> Ptr([URL                 |-> TrimRight(config.URL),
                            APIVersion          |-> config.APIVersion,
                            AuthConfig          |-> config.AuthConfig,
                            EnableAlphaFeatures |-> config.EnableAlphaFeatures]),
              err  |-> Nil,
              heap |-> h]

EmptyAuth == Ptr([BasicAuthConfig |-> Nil, BearerConfig |-> Nil])

BothAuth ==
    Ptr([BasicAuthConfig |-> Ptr([Username |-> "user", Password |-> "pass"]),
         BearerConfig    |-> Ptr([Token |-> "token"])])

PEMs ==
    {<<>>,
     <<[Type |-> "CERTIFICATE", cert |-> "ca"]>>,
     <<[Type |-> "PRIVATE KEY", cert |-> "key"]>>}

ClientConfigurations ==
    [URL                 : {"http://broker", "http://broker/"},
     APIVersion          : SupportedVersions,
     AuthConfig          : {Nil, EmptyAuth, BasicAuth, BearerAuth, BothAuth},
     EnableAlphaFeatures : BOOLEAN,
     TLSConfig           : {Nil, Ptr(callerTLS)},
     Insecure            : BOOLEAN,
     CAData              : PEMs]

TLSConfigs ==
    [InsecureSkipVerify : BOOLEAN,
     RootCAs            : {Nil, Ptr(NewCertPool), Ptr({"root"})}]

(* The tls.Config objects the caller holds, given its configuration.       *)
Heaps(config) ==
    IF config.TLSConfig = Nil
    THEN {<<>>}
    ELSE {callerTLS :> t : t \in TLSConfigs}

(* No client exists before NewClient returns one.                          *)
ZeroClient ==
    [URL                 |-> "",
     APIVersion          |-> [label |-> "", order |-> 0],
     AuthConfig          |-> Nil,
     EnableAlphaFeatures |-> FALSE]

InitNewClient ==
    /\ client = ZeroClient
    /\ call = [k \in Calls |-> IdleCall]
    /\ versionOp = IdleVersionOp
    /\ fnApp = NoApplication
    /\ \E config \in ClientConfigurations : \E heap \in Heaps(config) :
           ctor = [pc     |-> "called",
                   given  |-> [config |-> config, heap |-> heap],
                   config |-> config,
                   heap   |-> heap,
                   c      |-> Nil,
                   err    |-> Nil]

NewClient ==
    /\ ctor.pc = "called"
    /\ LET res == NewClientResult(ctor.config, ctor.heap)
       IN  /\ ctor' = [ctor EXCEPT !.pc = "returned",
                                   !.heap = res.heap,
                                   !.c = res.c,
                                   !.err = res.err]
           /\ client' = IF res.c # Nil THEN Deref(res.c) ELSE client
    /\ UNCHANGED <<call, versionOp, fnApp>>

(* prepareAndDo on the client NewClient returned, up to the transport.     *)
PrepareAndDo(method, body, originatingIdentity, requestId) ==
    /\ ctor.pc = "returned"
    /\ ctor.c # Nil
    /\ fnApp.op = "none"
    /\ fnApp' = [op     |-> "prepareAndDo",
                 args   |-> <<method, body, originatingIdentity>>,
                 result |-> prepareAndDo(client, method, client.URL, Nil, body,
                                         originatingIdentity, requestId)]
    /\ UNCHANGED <<client, call, versionOp, ctor>>

PreparedBodies == {Nil, Ptr([predecessor_binding_id |-> "test-predecessor-binding-id"])}

PreparedIdentities ==
    {Nil,
     Ptr([Platform |-> "fakeplatform", Value |-> EmptyObject]),
     Ptr([Platform |-> "fakeplatform", Value |-> LBrace])}

NextNewClient ==
    \/ NewClient
    \/ \E method \in {"GET", MethodPut}, body \in PreparedBodies,
          originatingIdentity \in PreparedIdentities, requestId \in UUIDs :
           PrepareAndDo(method, body, originatingIdentity, requestId)

SpecNewClient == InitNewClient /\ [][NextNewClient]_vars

(***************************************************************************)
(* The version registry (src/version.go) and the version gate              *)
(* (src/client.go:294-306), each applied once to inputs drawn from the     *)
(* supported versions.                                                     *)
(***************************************************************************)
InitVersion ==
    /\ client \in Clients
    /\ call = [k \in Calls |-> IdleCall]
    /\ versionOp = IdleVersionOp
    /\ fnApp = NoApplication
    /\ ctor = NoConstruction

(* c.validateClientVersionIsAtLeast(version)                               *)
ValidateClientVersion(version) ==
    /\ versionOp.op = "none"
    /\ versionOp' = [op     |-> "validate",
                     args   |-> <<version>>,
                     result |-> validateClientVersionIsAtLeast(client, version)]
    /\ UNCHANGED <<client, call, ctor, fnApp>>

(* The comparisons of the client's version v with w and u.                 *)
CompareVersions(w, u) ==
    /\ versionOp.op = "none"
    /\ versionOp' =
           [op     |-> "compare",
            args   |-> <<client.APIVersion, w, u>>,
            result |-> [vv |-> AtLeast(client.APIVersion, client.APIVersion),
                        vw |-> AtLeast(client.APIVersion, w),
                        wv |-> AtLeast(w, client.APIVersion),
                        wu |-> AtLeast(w, u),
                        vu |-> AtLeast(client.APIVersion, u),
                        lt |-> IsLessThan(client.APIVersion, w)]]
    /\ UNCHANGED <<client, call, ctor, fnApp>>

(* LatestAPIVersion() and APIVersions()                                    *)
QueryVersions ==
    /\ versionOp.op = "none"
    /\ versionOp' = [op     |-> "query",
                     args   |-> <<>>,
                     result |-> [latest |-> LatestAPIVersion, all |-> APIVersions]]
    /\ UNCHANGED <<client, call, ctor, fnApp>>

NextVersion ==
    \/ \E version \in SupportedVersions : ValidateClientVersion(version)
    \/ \E w \in SupportedVersions, u \in SupportedVersions : CompareVersions(w, u)
    \/ QueryVersions

SpecVersion == InitVersion /\ [][NextVersion]_vars

(***************************************************************************)
(* buildOriginatingIdentityHeaderValue (src/client.go:269-285) and         *)
(* BindResource.IsNotEmpty (src/bind_resource_methods.go:4-6), each        *)
(* applied once to an input drawn from the sets below.                     *)
(***************************************************************************)
MaxValueLen == 3

(* The bytes '1', '[', ']', '{', '}'.                                      *)
ValueBytes == {49, 91, 93, 123, 125}

RECURSIVE ByteStrings(_)
ByteStrings(n) ==
    IF n = 0 THEN {<<>>}
    ELSE LET shorter == ByteStrings(n - 1)
         IN  shorter \cup {Append(s, b) : s \in {t \in shorter : Len(t) = n - 1},
                                         b \in ValueBytes}

IdentityInputs ==
    {Nil} \cup {Ptr([Platform |-> p, Value |-> v]) :
                   p \in {"", "fakeplatform", "fake platform"},
                   v \in ByteStrings(MaxValueLen)}

(* IsNotEmpty looking at the AppGUID only.                                 *)
IsNotEmpty_appOnly(br) ==
    br.AppGUID # Nil /\ Deref(br.AppGUID) # ""

IsNotEmpty(br) ==
    \/ br.AppGUID # Nil /\ Deref(br.AppGUID) # ""
    \/ br.Route # Nil /\ Deref(br.Route) # ""

BindResources ==
    [AppGUID : {Nil, Ptr(""), Ptr("app-guid")},
     Route   : {Nil, Ptr(""), Ptr("route.example.com")}]

InitFunctions ==
    /\ client \in {c \in Clients : c.APIVersion = Version2_17 /\ c.AuthConfig = Nil}
    /\ call = [k \in Calls |-> IdleCall]
    /\ versionOp = IdleVersionOp
    /\ ctor = NoConstruction
    /\ fnApp = NoApplication

BuildOriginatingIdentityHeaderValue(i) ==
    /\ fnApp.op = "none"
    /\ fnApp' = [op     |-> "buildOriginatingIdentityHeaderValue",
                 args   |-> <<i>>,
                 result |-> buildOriginatingIdentityHeaderValue(i)]
    /\ UNCHANGED <<client, call, versionOp, ctor>>

BindResourceIsNotEmpty(br) ==
    /\ fnApp.op = "none"
    /\ fnApp' = [op     |-> "IsNotEmpty",
                 args   |-> <<br>>,
                 result |-> IsNotEmpty(br)]
    /\ UNCHANGED <<client, call, versionOp, ctor>>

NextFunctions ==
    \/ \E i \in IdentityInputs : BuildOriginatingIdentityHeaderValue(i)
    \/ \E br \in BindResources : BindResourceIsNotEmpty(br)

SpecFunctions == InitFunctions /\ [][NextFunctions]_vars

(***************************************************************************)
(* Properties.                                                             *)
(***************************************************************************)
Started(k) == call[k].pc # "idle"
Returned(k) == call[k].pc = "returned"
Req(k) == Deref(call[k].r)
GotResponse(k) == Returned(k) /\ call[k].reaction # Nil
                      /\ Deref(call[k].reaction).response # Nil
Resp(k) == Deref(Deref(call[k].reaction).response)
NothingSent(k) == call[k].transportCalls = 0 /\ call[k].request = Nil

(* The labels of the releases from 2.13 on.                                *)
From2_13 == {"2.13", "2.14", "2.15", "2.16", "2.17"}

(* C1: with a client API version below 2.17, every RotateBinding call,     *)
(* whatever its request, returns an OperationNotAllowedError naming 2.17   *)
(* and the current version, returns no response, and hands no request to   *)
(* the transport.                                                          *)
C1_VersionGate ==
    \A k \in Calls :
        (Started(k) /\ client.APIVersion.label # "2.17") =>
            /\ Returned(k)
            /\ NothingSent(k)
            /\ call[k].response = Nil
            /\ call[k].err =
                   Ptr(OperationNotAllowedError("2.17", client.APIVersion.label))

(* C2: a 202 response to a request whose AcceptsIncomplete is false yields *)
(* an HTTPStatusCodeError with StatusCode 202 and a nil response, whatever *)
(* the body.                                                               *)
C2_UnsolicitedAccepted ==
    \A k \in Calls :
        (GotResponse(k) /\ Resp(k).StatusCode = StatusAccepted
                        /\ ~Req(k).AcceptsIncomplete) =>
            /\ call[k].response = Nil
            /\ call[k].err # Nil
            /\ Deref(call[k].err).type = "HTTPStatusCodeError"
            /\ Deref(call[k].err).StatusCode = StatusAccepted

C2_Witness ==
    \E k \in Calls :
        /\ GotResponse(k)
        /\ Resp(k).StatusCode = StatusAccepted
        /\ ~Req(k).AcceptsIncomplete
        /\ Resp(k).Body.syntax = "object"
        /\ "operation" \in DOMAIN Resp(k).Body.fields
        /\ call[k].err # Nil

(* C3: with EnableAlphaFeatures false, every BindResponse RotateBinding    *)
(* returns has Endpoints nil, on every success path and whatever the body. *)
C3_AlphaScrub ==
    \A k \in Calls :
        (Returned(k) /\ ~client.EnableAlphaFeatures /\ call[k].response # Nil) =>
            Deref(call[k].response).Endpoints = Nil

(* C4: a request handed to the transport carries the originating identity  *)
(* header if and only if an identity was supplied and the client's version *)
(* is at least 2.13; the header is never sent with an empty value.         *)
C4_IdentityHeader ==
    \A k \in Calls :
        call[k].request # Nil =>
            LET h == Deref(call[k].request).Header
            IN  /\ (OriginatingIdentityHeader \in DOMAIN h) <=>
                       (Req(k).OriginatingIdentity # Nil
                           /\ client.APIVersion.label \in From2_13)
                /\ OriginatingIdentityHeader \in DOMAIN h =>
                       h[OriginatingIdentityHeader] # <<>>

C4_Witness ==
    \E k \in Calls :
        /\ call[k].request # Nil
        /\ OriginatingIdentityHeader \in DOMAIN Deref(call[k].request).Header
        /\ client.APIVersion = Version2_13

Malformed(i) ==
    i # Nil /\ (Deref(i).Platform = "" \/ Deref(i).Value = <<>>
                   \/ ~IsJSONText(Deref(i).Value))

(* C5 as stated: at every client API version, a call that supplies a       *)
(* malformed originating identity fails with an error and hands no request *)
(* to the transport.                                                       *)
C5_AnyVersion ==
    \A k \in Calls :
        (Started(k) /\ Malformed(Req(k).OriginatingIdentity)) =>
            /\ Returned(k)
            /\ call[k].err # Nil
            /\ call[k].response = Nil
            /\ NothingSent(k)

(* C5 amended: at every client API version from 2.13 on, a call that       *)
(* supplies a malformed originating identity fails with an error and hands *)
(* no request to the transport.                                            *)
C5_From2_13 ==
    \A k \in Calls :
        (Started(k) /\ Malformed(Req(k).OriginatingIdentity)
                    /\ client.APIVersion.label \in From2_13) =>
            /\ Returned(k)
            /\ call[k].err # Nil
            /\ call[k].response = Nil
            /\ NothingSent(k)

C5_Witness ==
    \E k \in Calls :
        /\ Returned(k)
        /\ client.APIVersion = Version2_13
        /\ validateRotateBindingRequest(Req(k)) = Nil
        /\ Req(k).OriginatingIdentity # Nil
        /\ Deref(Req(k).OriginatingIdentity).Value = LBrace
        /\ call[k].err # Nil
        /\ NothingSent(k)

AnyRequiredEmpty(r) ==
    r.InstanceID = "" \/ r.BindingID = "" \/ r.PredecessorBindingID = ""

(* C6: validateRotateBindingRequest rejects a request if and only if one   *)
(* of InstanceID, BindingID, PredecessorBindingID is empty, and when it    *)
(* rejects, RotateBinding returns that error with a nil response and hands *)
(* no request to the transport.                                            *)
C6_Validation ==
    \A k \in Calls :
        Started(k) =>
            /\ (validateRotateBindingRequest(Req(k)) # Nil) <=> AnyRequiredEmpty(Req(k))
            /\ AnyRequiredEmpty(Req(k)) =>
                   /\ Returned(k)
                   /\ call[k].err # Nil
                   /\ call[k].err = validateRotateBindingRequest(Req(k))
                   /\ Deref(call[k].err).type = "required"
                   /\ call[k].response = Nil
                   /\ NothingSent(k)

C6_Witness ==
    \E k \in Calls :
        /\ Returned(k)
        /\ Req(k).InstanceID # ""
        /\ Req(k).BindingID # ""
        /\ Req(k).PredecessorBindingID = ""
        /\ call[k].err # Nil
        /\ NothingSent(k)

FirstEmptyField(r) ==
    IF r.InstanceID = "" THEN "instanceID"
    ELSE IF r.BindingID = "" THEN "bindingID"
    ELSE "predecessorBindingID"

(* C7: when validateRotateBindingRequest rejects a request, the error      *)
(* names the first empty field among InstanceID, BindingID and             *)
(* PredecessorBindingID: instanceID, bindingID, predecessorBindingID.      *)
C7_NamesMissingField ==
    \A k \in Calls :
        (Started(k) /\ AnyRequiredEmpty(Req(k))) =>
            call[k].err = Ptr(required(FirstEmptyField(Req(k))))

(* C8: on every status code, a response whose body is not JSON makes       *)
(* RotateBinding return a nil response and an HTTPStatusCodeError with the *)
(* response's status code, ResponseError set, ErrorMessage and Description *)
(* unset.                                                                  *)
C8_MalformedBody ==
    \A k \in Calls :
        (GotResponse(k) /\ Resp(k).Body.syntax = "malformed") =>
            /\ call[k].response = Nil
            /\ call[k].err # Nil
            /\ Deref(call[k].err).type = "HTTPStatusCodeError"
            /\ Deref(call[k].err).StatusCode = Resp(k).StatusCode
            /\ Deref(call[k].err).ResponseError # Nil
            /\ Deref(call[k].err).ErrorMessage = Nil
            /\ Deref(call[k].err).Description = Nil

C8_Witness ==
    \E k \in Calls :
        /\ GotResponse(k)
        /\ Resp(k).Body.syntax = "malformed"
        /\ Resp(k).StatusCode = StatusOK
        /\ call[k].err # Nil

(* The calls that reached handleFailureResponse.                           *)
FailureHandled(k) ==
    /\ GotResponse(k)
    /\ \/ Resp(k).StatusCode \notin {StatusOK, StatusCreated, StatusAccepted}
       \/ Resp(k).StatusCode = StatusAccepted /\ ~Req(k).AcceptsIncomplete

StringField(body, key) ==
    IF key \in DOMAIN body.fields /\ body.fields[key][1] = "string"
    THEN Ptr(body.fields[key][2])
    ELSE Nil

(* C9: on a JSON-object body, handleFailureResponse returns an             *)
(* HTTPStatusCodeError with the response's status code, ResponseError      *)
(* unset, ErrorMessage set exactly when the body has a string "error"      *)
(* (and equal to it), Description set exactly when the body has a string   *)
(* "description" (and equal to it), each independently of the other.       *)
C9_FailureFields ==
    \A k \in Calls :
        (FailureHandled(k) /\ Resp(k).Body.syntax = "object") =>
            /\ call[k].err # Nil
            /\ Deref(call[k].err).type = "HTTPStatusCodeError"
            /\ Deref(call[k].err).StatusCode = Resp(k).StatusCode
            /\ Deref(call[k].err).ResponseError = Nil
            /\ Deref(call[k].err).ErrorMessage = StringField(Resp(k).Body, "error")
            /\ Deref(call[k].err).Description = StringField(Resp(k).Body, "description")

C9_Witness ==
    \E k \in Calls :
        /\ FailureHandled(k)
        /\ Resp(k).Body.syntax = "object"
        /\ "error" \in DOMAIN Resp(k).Body.fields
        /\ Resp(k).Body.fields["error"][1] = "number"
        /\ Deref(call[k].err).ErrorMessage = Nil
        /\ Deref(call[k].err).Description # Nil

(* C10: when the transport returns an error, RotateBinding returns that    *)
(* same error value and a nil response.                                    *)
C10_TransportError ==
    \A k \in Calls :
        (Returned(k) /\ call[k].reaction # Nil
                     /\ Deref(call[k].reaction).err # Nil) =>
            /\ call[k].err = Deref(call[k].reaction).err
            /\ call[k].response = Nil

C10_Witness ==
    \E k \in Calls :
        /\ Returned(k)
        /\ call[k].reaction # Nil
        /\ Deref(call[k].reaction).err # Nil
        /\ call[k].err # Nil
        /\ Deref(call[k].err).msg = "http error"

(* C11: a 202 response with a decodable body to a request that accepts     *)
(* incomplete yields a nil error and a BindResponse with Async true whose  *)
(* OperationKey is the body's "operation" value, or nil when the body has  *)
(* none.                                                                   *)
C11_AsyncAccepted ==
    \A k \in Calls :
        (GotResponse(k) /\ Resp(k).StatusCode = StatusAccepted
                        /\ Req(k).AcceptsIncomplete
                        /\ Resp(k).Body.syntax = "object") =>
            /\ call[k].err = Nil
            /\ call[k].response # Nil
            /\ Deref(call[k].response).Async = TRUE
            /\ Deref(call[k].response).OperationKey =
                   StringField(Resp(k).Body, "operation")

C11_Witness ==
    \E k \in Calls :
        /\ GotResponse(k)
        /\ Resp(k).StatusCode = StatusAccepted
        /\ Req(k).AcceptsIncomplete
        /\ call[k].response # Nil
        /\ Deref(call[k].response).Async
        /\ Deref(call[k].response).OperationKey = Ptr("test-operation-key")

(* C12: a BindResponse returned for a 200 or 201 response has Async false, *)
(* whatever the decodable body holds; Async is true only for a 202         *)
(* response to a request that accepts incomplete.                          *)
C12_SyncCompletion ==
    \A k \in Calls :
        (Returned(k) /\ call[k].response # Nil /\ Deref(call[k].response).Async) =>
            /\ Resp(k).StatusCode = StatusAccepted
            /\ Req(k).AcceptsIncomplete

(* C13: the request handed to the transport carries the query parameter    *)
(* accepts_incomplete, with the value "true", if and only if the request's *)
(* AcceptsIncomplete is true.                                              *)
C13_AcceptsIncompleteParam ==
    \A k \in Calls :
        call[k].request # Nil =>
            LET q == Deref(call[k].request).Query
            IN  /\ (AcceptsIncomplete \in DOMAIN q) <=> Req(k).AcceptsIncomplete
                /\ AcceptsIncomplete \in DOMAIN q => q[AcceptsIncomplete] = "true"

C13_Witness ==
    \E k \in Calls :
        /\ call[k].request # Nil
        /\ Req(k).AcceptsIncomplete
        /\ AcceptsIncomplete \in DOMAIN Deref(call[k].request).Query

(* C20: a RotateBinding call hands at most one request to the transport;   *)
(* once the transport has answered, with an error or with any response,    *)
(* the call has returned and has sent exactly one request.                 *)
C20_AtMostOneRequest ==
    \A k \in Calls :
        /\ call[k].transportCalls <= 1
        /\ call[k].reaction # Nil =>
               (Returned(k) /\ call[k].transportCalls = 1)

C20_Witness ==
    \E k \in Calls :
        /\ Returned(k)
        /\ call[k].reaction # Nil
        /\ Deref(call[k].reaction).err # Nil
        /\ call[k].err # Nil
        /\ call[k].transportCalls = 1

(* The releases in the order of their publication.                         *)
Releases == <<"2.11", "2.12", "2.13", "2.14", "2.15", "2.16", "2.17">>

Release(label) == CHOOSE i \in 1..Len(Releases) : Releases[i] = label

(* C14: validateClientVersionIsAtLeast(r) on a client of version c returns *)
(* an OperationNotAllowedError if and only if c is an earlier release than *)
(* r, nil otherwise, and the error names the required version r and the    *)
(* current version c.                                                      *)
C14_VersionGateResult ==
    versionOp.op = "validate" =>
        LET r == versionOp.args[1].label
            c == client.APIVersion.label
        IN  /\ (versionOp.result # Nil) <=> (Release(c) < Release(r))
            /\ versionOp.result # Nil =>
                   versionOp.result =
                       Ptr([type     |-> "OperationNotAllowedError",
                            required |-> r,
                            current  |-> c])

C14_Witness ==
    /\ versionOp.op = "validate"
    /\ client.APIVersion.label = "2.13"
    /\ versionOp.args[1].label = "2.14"
    /\ versionOp.result # Nil

(* C15: over the seven supported versions, v.AtLeast(w) is true exactly    *)
(* when v is the same release as w or a later one; the relation is         *)
(* reflexive, transitive, total and antisymmetric, and v.IsLessThan(w) is  *)
(* its negation.                                                           *)
C15_VersionOrder ==
    versionOp.op = "compare" =>
        LET v == versionOp.args[1]
            w == versionOp.args[2]
            res == versionOp.result
        IN  /\ res.vw <=> (Release(v.label) >= Release(w.label))
            /\ res.vv
            /\ (res.vw /\ res.wu) => res.vu
            /\ res.vw \/ res.wv
            /\ (res.vw /\ res.wv) => v.label = w.label
            /\ res.lt <=> ~res.vw

C15_Witness ==
    /\ versionOp.op = "compare"
    /\ versionOp.args[1].label = "2.14"
    /\ versionOp.args[2].label = "2.12"
    /\ versionOp.args[3].label = "2.11"
    /\ versionOp.result.vw
    /\ ~versionOp.result.wv

(* C16: LatestAPIVersion() is one of the versions of APIVersions() and is  *)
(* at least every one of them, and every entry of APIVersions() is stored  *)
(* under the key equal to its version's label.                             *)
C16_LatestAndKeys ==
    versionOp.op = "query" =>
        LET latest == versionOp.result.latest
            all == versionOp.result.all
        IN  /\ \E k \in DOMAIN all : all[k] = latest
            /\ \A k \in DOMAIN all : AtLeast(latest, all[k])
            /\ \A k \in DOMAIN all : all[k].label = k

C16_Witness ==
    /\ versionOp.op = "query"
    /\ versionOp.result.latest.label = "2.17"
    /\ DOMAIN versionOp.result.all = {Releases[i] : i \in 1..Len(Releases)}

NewClientReturned == ctor.pc = "returned"

OneAuthSet(AuthConfig) ==
    (Deref(AuthConfig).BasicAuthConfig = Nil) # (Deref(AuthConfig).BearerConfig = Nil)

(* C17: NewClient fails when the AuthConfig sets both basic and bearer     *)
(* authentication, fails when the AuthConfig is non-nil and sets neither,  *)
(* and every client it returns has no AuthConfig or one with exactly one   *)
(* of the two set.                                                         *)
C17_AuthConfigExclusive ==
    NewClientReturned =>
        LET given == ctor.given.config.AuthConfig
        IN  /\ (given # Nil /\ ~OneAuthSet(given)) => (ctor.err # Nil /\ ctor.c = Nil)
            /\ ctor.c # Nil =>
                   \/ Deref(ctor.c).AuthConfig = Nil
                   \/ OneAuthSet(Deref(ctor.c).AuthConfig)
            /\ ctor.c # Nil => client = Deref(ctor.c)

C17_Witness ==
    /\ NewClientReturned
    /\ ctor.given.config.AuthConfig = BothAuth
    /\ ctor.err = Ptr(errorsNew("Only one AuthConfig implementation must be set at a time"))

(* C18: after NewClient returns, with a client or with an error, every     *)
(* field of the caller's ClientConfiguration and the tls.Config it points  *)
(* to (InsecureSkipVerify, RootCAs) have the values they had before the    *)
(* call.                                                                   *)
C18_ConfigReadOnly ==
    NewClientReturned =>
        /\ ctor.config = ctor.given.config
        /\ \A a \in DOMAIN ctor.given.heap : ctor.heap[a] = ctor.given.heap[a]

(* What a call holds is what RotateBinding makes of its own request and of *)
(* the reaction to its own request on the client c.                        *)
OutcomeAlone(c, cl) ==
    CASE cl.pc = "idle" -> cl = IdleCall
      [] cl.pc = "inTransport" ->
            \E requestId \in UUIDs :
                LET p == RotateBindingPrepare(c, Deref(cl.r), requestId)
                IN  p.err = Nil /\ cl.request = p.request
      [] cl.pc = "returned" /\ cl.reaction = Nil ->
            \E requestId \in UUIDs :
                LET p == RotateBindingPrepare(c, Deref(cl.r), requestId)
                IN  p.err # Nil /\ cl.err = p.err /\ cl.response = Nil /\ cl.request = Nil
      [] cl.pc = "returned" /\ cl.reaction # Nil ->
            LET out == RotateBindingResult(c, Deref(cl.r), Deref(cl.reaction))
            IN  cl.response = out.response /\ cl.err = out.err

(* C19: with RotateBinding calls running concurrently on one client in any *)
(* interleaving, no step writes the client's configuration, a step of one  *)
(* call leaves every other call as it was, and what each call sends and    *)
(* returns is what it would alone with the same request and reaction.      *)
C19_ConcurrentIsolation ==
    [][/\ client' = client
       /\ \A k \in DOMAIN call :
              /\ OutcomeAlone(client, call'[k])
              /\ call'[k] # call[k] =>
                     \A j \in DOMAIN call \ {k} : call'[j] = call[j]]_vars

C19_Witness ==
    /\ call[1].pc = "returned"
    /\ call[2].pc = "returned"
    /\ call[1].r # call[2].r
    /\ call[1].reaction # Nil
    /\ call[1].reaction = call[2].reaction
    /\ call[1].response # Nil
    /\ call[2].response = Nil

(* The bytes a padded base64 text, given as alphabet indices, stands for.   *)
RECURSIVE DecodeString(_)
DecodeString(s) ==
    IF Len(s) = 0 THEN <<>>
    ELSE LET sextet(i) == IF s[i] = 64 THEN 0 ELSE s[i]
             val == sextet(1) * 262144 + sextet(2) * 4096 + sextet(3) * 64 + sextet(4)
             bytes == <<val \div 65536, (val \div 256) % 256, val % 256>>
             n == IF s[3] = 64 THEN 1 ELSE IF s[4] = 64 THEN 2 ELSE 3
         IN  SubSeq(bytes, 1, n) \o DecodeString(SubSeq(s, 5, Len(s)))

ValidIdentity(i) ==
    /\ i # Nil
    /\ Deref(i).Platform # ""
    /\ Deref(i).Value # <<>>
    /\ IsJSONText(Deref(i).Value)

(* C21: for every valid originating identity (non-empty Platform, non-     *)
(* empty Value that is valid JSON) buildOriginatingIdentityHeaderValue     *)
(* returns the Platform, a space and the padded base64 text of the Value   *)
(* with no error, and decoding what follows the last space gives the Value *)
(* back.                                                                   *)
C21_IdentityRoundTrip ==
    (fnApp.op = "buildOriginatingIdentityHeaderValue" /\ ValidIdentity(fnApp.args[1])) =>
        LET i == Deref(fnApp.args[1])
            headerValue == fnApp.result.value
        IN  /\ fnApp.result.err = Nil
            /\ Len(headerValue) = 3
            /\ headerValue[1] = i.Platform
            /\ headerValue[2] = " "
            /\ \A n \in 1..Len(headerValue[3]) : headerValue[3][n] \in 0..64
            /\ Len(headerValue[3]) % 4 = 0
            /\ DecodeString(headerValue[3]) = i.Value

C21_Witness ==
    /\ fnApp.op = "buildOriginatingIdentityHeaderValue"
    /\ ValidIdentity(fnApp.args[1])
    /\ Deref(fnApp.args[1]).Value = EmptyObject
    /\ Deref(fnApp.args[1]).Platform = "fake platform"
    /\ fnApp.result.value[3] = <<30, 55, 52, 64>>

(* C22: BindResource.IsNotEmpty returns true if and only if AppGUID is     *)
(* non-nil and non-empty or Route is non-nil and non-empty, and false when *)
(* both are nil or point to empty strings.                                 *)
C22_IsNotEmpty ==
    fnApp.op = "IsNotEmpty" =>
        LET br == fnApp.args[1]
            empty(p) == p \in {Nil, Ptr("")}
        IN  /\ fnApp.result \in BOOLEAN
            /\ fnApp.result <=> ~(empty(br.AppGUID) /\ empty(br.Route))

C22_Witness ==
    /\ fnApp.op = "IsNotEmpty"
    /\ fnApp.args[1].AppGUID = Ptr("")
    /\ fnApp.args[1].Route = Ptr("route.example.com")
    /\ fnApp.result = TRUE

(* C25: on every exit path of RotateBinding taken after the transport      *)
(* returned a response, the body has been drained (of at most 4096 bytes)  *)
(* and then closed exactly once when RotateBinding returns; a call without *)
(* a response closes nothing.                                              *)
C25_BodyDrainedAndClosed ==
    \A k \in Calls :
        /\ GotResponse(k) =>
               /\ call[k].bodyOps = <<"io.ReadAll", "drainReader", "Close">>
               /\ call[k].bodyDrained
               /\ call[k].bodyClosed = 1
               /\ call[k].bodyDiscarded <= 4096
        /\ ~GotResponse(k) =>
               /\ call[k].bodyOps = <<>>
               /\ call[k].bodyClosed = 0

C25_Witness ==
    /\ GotResponse(1)
    /\ Resp(1).StatusCode = StatusAccepted
    /\ ~Req(1).AcceptsIncomplete
    /\ Resp(1).Body.syntax = "malformed"
    /\ call[1].err # Nil
    /\ call[1].bodyClosed = 1

(* C28: for every status code outside {200, 201, 202}, 410 Gone included,  *)
(* RotateBinding returns a nil response and an HTTPStatusCodeError whose   *)
(* StatusCode is the status of the response.                               *)
C28_OtherStatusFails ==
    \A k \in Calls :
        (GotResponse(k) /\ Resp(k).StatusCode \notin {200, 201, 202}) =>
            /\ call[k].response = Nil
            /\ call[k].err # Nil
            /\ Deref(call[k].err).type = "HTTPStatusCodeError"
            /\ Deref(call[k].err).StatusCode = Resp(k).StatusCode

C28_Witness ==
    /\ GotResponse(1)
    /\ Resp(1).StatusCode = 410
    /\ Resp(1).Body = [syntax |-> "object", fields |-> <<>>]
    /\ call[1].response = Nil
    /\ call[1].err = Ptr(HTTPStatusCodeError(410, Nil, Nil, Nil))

(* C29: every RotateBinding call that has returned has returned either a   *)
(* non-nil BindResponse with a nil error or a nil BindResponse with a      *)
(* non-nil error, never both and never neither.                            *)
C29_ResponseXorError ==
    \A k \in Calls :
        Returned(k) => ((call[k].response # Nil) # (call[k].err # Nil))

C29_Witness ==
    /\ GotResponse(1)
    /\ Resp(1).StatusCode = StatusCreated
    /\ Resp(1).Body.syntax = "array"
    /\ call[1].response = Nil
    /\ call[1].err # Nil

Prepared == fnApp.op = "prepareAndDo" /\ fnApp.result.request # Nil

PreparedHeader == Deref(fnApp.result.request).Header

(* C26: every request prepareAndDo hands to the transport carries the      *)
(* X-Broker-API-Version header with the label of the client's configured   *)
(* API version and a non-empty X-Broker-API-Request-Identity header, and   *)
(* carries Content-Type: application/json if and only if a body was        *)
(* supplied.                                                               *)
C26_ProtocolHeaders ==
    Prepared =>
        /\ "X-Broker-API-Version" \in DOMAIN PreparedHeader
        /\ PreparedHeader["X-Broker-API-Version"] = ctor.given.config.APIVersion.label
        /\ "X-Broker-API-Request-Identity" \in DOMAIN PreparedHeader
        /\ PreparedHeader["X-Broker-API-Request-Identity"] # ""
        /\ ("Content-Type" \in DOMAIN PreparedHeader) <=> (fnApp.args[2] # Nil)
        /\ "Content-Type" \in DOMAIN PreparedHeader =>
               PreparedHeader["Content-Type"] = "application/json"

C26_Witness ==
    /\ Prepared
    /\ fnApp.args[2] = Nil
    /\ ctor.given.config.APIVersion.label = "2.12"
    /\ PreparedHeader["X-Broker-API-Version"] = "2.12"
    /\ "Content-Type" \notin DOMAIN PreparedHeader

(* C27: a request of a client built by NewClient carries a basic           *)
(* credential if and only if basic auth is configured, a bearer            *)
(* Authorization header if and only if bearer auth is configured, and no   *)
(* Authorization header when no AuthConfig is configured.                  *)
C27_AuthApplied ==
    Prepared =>
        LET AuthConfig == ctor.given.config.AuthConfig
            basic == AuthConfig # Nil /\ Deref(AuthConfig).BasicAuthConfig # Nil
            bearer == AuthConfig # Nil /\ Deref(AuthConfig).BearerConfig # Nil
            sent == "Authorization" \in DOMAIN PreparedHeader
        IN  /\ ~(basic /\ bearer)
            /\ sent <=> (basic \/ bearer)
            /\ basic => PreparedHeader["Authorization"] = <<"Basic", "user", "pass">>
            /\ bearer => PreparedHeader["Authorization"] = <<"Bearer", "token">>

C27_Witness ==
    /\ Prepared
    /\ ctor.given.config.AuthConfig = BearerAuth
    /\ PreparedHeader["Authorization"] = <<"Bearer", "token">>

====
